---- MODULE Spec2Model ----
(***************************************************************************)
(* Slice producers of src/slice.rs: the separator-delimited producer       *)
(* (SplitProducer) and the indexed producers (IterProducer,                *)
(* ChunksProducer, WindowsProducer, IterMutProducer, ChunksMutProducer).   *)
(* Slices are views [start, len) into one base sequence; indices are       *)
(* 0-based as in the source, so element i of the base is data[i + 1].      *)
(***************************************************************************)
EXTENDS Integers, Sequences, FiniteSets, TLC

VARIABLES data, separator, prods, calls, lastOp,
          kind, n, size, length, pieces, mem, writes, panicked,
          outOfRange, nsplits, lastIdx

vars == <<data, separator, prods, calls, lastOp,
          kind, n, size, length, pieces, mem, writes, panicked,
          outOfRange, nsplits, lastIdx>>

splitVars == <<data, separator, prods, calls, lastOp>>
idxVars == <<kind, n, size, length, pieces, mem, writes, panicked,
             outOfRange, nsplits, lastIdx>>

\* ---------------------------------------------------------------- bounds
MaxLen == 4
MaxIdxLen == 4
MaxSplits == 2
WordBits == 4

\* the elements: the code observes an element only through the predicate,
\* so two values with every predicate over them give every pattern
Values == {0, 1}
None == -1
WordMod == 2 ^ WordBits
WordMax == WordMod - 1

Min(a, b) == IF a < b THEN a ELSE b
Max(a, b) == IF a > b THEN a ELSE b

RECURSIVE Count(_, _)
Count(s, x) == IF s = <<>> THEN 0
               ELSE (IF Head(s) = x THEN 1 ELSE 0) + Count(Tail(s), x)

\* ====================================================================
\* Separator-delimited producer
\* ====================================================================

\* the predicate P: Fn(&T) -> bool, here membership in a set of values
Sep(x) == x \in separator

\* element i of a view v (a record with a start field), slice[i]
Elem(v, i) == data[v.start + i + 1]

View(start, len) == [start |-> start, len |-> len]

\* slice[lo..hi].iter().position(separator).map(|i| lo + i): the lowest
\* index in [lo, hi) whose element satisfies the predicate, with the
\* absolute indices the predicate was invoked on, in order.
RECURSIVE position(_, _, _)
position(v, lo, hi) ==
    IF lo >= hi THEN [idx |-> None, seen |-> <<>>]
    ELSE IF Sep(Elem(v, lo)) THEN [idx |-> lo, seen |-> <<v.start + lo>>]
    ELSE LET r == position(v, lo + 1, hi)
         IN  [idx |-> r.idx, seen |-> <<v.start + lo>> \o r.seen]

\* slice[lo..hi].iter().rposition(separator): the highest such index,
\* scanning from the back.
RECURSIVE rposition(_, _, _)
rposition(v, lo, hi) ==
    IF lo >= hi THEN [idx |-> None, seen |-> <<>>]
    ELSE IF Sep(Elem(v, hi - 1)) THEN [idx |-> hi - 1, seen |-> <<v.start + hi - 1>>]
    ELSE LET r == rposition(v, lo, hi - 1)
         IN  [idx |-> r.idx, seen |-> <<v.start + hi - 1>> \o r.seen]

\* Split::drive_unindexed: the fresh producer, tail = slice.len()
FreshProducer(len) ==
    [start |-> 0, len |-> len, tail |-> len, st |-> "live",
     items |-> <<>>, stopped |-> FALSE]

Producer(start, len, tail) ==
    [start |-> start, len |-> len, tail |-> tail, st |-> "live",
     items |-> <<>>, stopped |-> FALSE]

\* let mid = tail / 2;
split_mid(tail) == tail \div 2

\* mutation: the upper half is searched from the back
split_search_back(p, mid) ==
    LET fwd == rposition(p, mid, p.tail)
    IN  IF fwd.idx # None THEN fwd
        ELSE LET bwd == rposition(p, 0, mid)
             IN  [idx |-> bwd.idx, seen |-> fwd.seen \o bwd.seen]

\* the search: forward in [mid, tail), and failing that backward in [0, mid)
split_search(p, mid) ==
    LET fwd == position(p, mid, p.tail)
    IN  IF fwd.idx # None THEN fwd
        ELSE LET bwd == rposition(p, 0, mid)
             IN  [idx |-> bwd.idx, seen |-> fwd.seen \o bwd.seen]

\* mutation: the left piece keeps the whole searched range as its tail
split_left_tail_index(mid, index) == index

\* mutation: the left piece is marked exhausted
split_left_tail_zero(mid, index) == 0

\* self.tail = cmp::min(mid, index);
split_left_tail(mid, index) == Min(mid, index)

\* mutation: the right piece is always marked exhausted
split_right_tail_zero(tail, index, mid) == 0

\* mutation: the right piece's tail counts the separator
split_right_tail_late(tail, index, mid) ==
    IF index < mid THEN 0 ELSE tail - index

\* tail: tail - index - 1, and right.tail = 0 when index < mid
split_right_tail(tail, index, mid) ==
    IF index < mid THEN 0 ELSE tail - index - 1

\* mutation: the left piece keeps the separator
split_left_slice_keepsep(p, index) == View(p.start, index + 1)

\* slice.split_at(index).0
split_left_slice(p, index) == View(p.start, index)

\* mutation: the right piece ends at the parent's tail
split_right_slice_to_tail(p, index) == View(p.start + index + 1, p.tail - index - 1)

\* mutation: the right piece keeps the separator
split_right_slice_keepsep(p, index) == View(p.start + index, p.len - index)

\* &right[1..] of slice.split_at(index).1
split_right_slice(p, index) == View(p.start + index + 1, p.len - index - 1)

\* mutation: an exhausted producer keeps its tail
split_exhausted_keep(p) == Producer(p.start, p.len, p.tail)

\* self.tail = 0; (self, None)
split_exhausted(p) == Producer(p.start, p.len, 0)

\* SplitProducer::split: (self, Some(right)) or (self, None)
split(p) ==
    LET mid == split_mid(p.tail)
        s   == split_search(p, mid)
    IN  IF s.idx # None
        THEN LET l == split_left_slice(p, s.idx)
                 r == split_right_slice(p, s.idx)
             IN  [left  |-> Producer(l.start, l.len, split_left_tail(mid, s.idx)),
                  right |-> <<Producer(r.start, r.len,
                                       split_right_tail(p.tail, s.idx, mid))>>,
                  index |-> s.idx, mid |-> mid, seen |-> s.seen]
        ELSE [left  |-> split_exhausted(p),
              right |-> <<>>,
              index |-> None, mid |-> mid, seen |-> s.seen]

\* ---- the folder (iter::internal::Folder), a collector that reports full
\* ---- once it holds cap items
NoCap == MaxLen + 2
FolderCaps == {1, 2, NoCap}

Folder(cap) == [items |-> <<>>, cap |-> cap]
consume(f, item) == [f EXCEPT !.items = Append(f.items, item)]
full(f) == Len(f.items) >= f.cap

\* one step of std's slice::Split iterator over the view v
slice_split_next(v) ==
    LET r == position(v, 0, v.len)
    IN  IF r.idx = None
        THEN [item |-> v, finished |-> TRUE, rest |-> v, seen |-> r.seen]
        ELSE [item |-> View(v.start, r.idx), finished |-> FALSE,
              rest |-> View(v.start + r.idx + 1, v.len - r.idx - 1),
              seen |-> r.seen]

\* folder.consume_iter(v.split(separator)): consume each group, stop when
\* full; stopped tells that groups were left unconsumed
RECURSIVE consume_iter(_, _)
consume_iter(f, v) ==
    LET nx == slice_split_next(v)
        f1 == consume(f, nx.item)
    IN  IF nx.finished THEN [folder |-> f1, seen |-> nx.seen, stopped |-> FALSE]
        ELSE IF full(f1) THEN [folder |-> f1, seen |-> nx.seen, stopped |-> TRUE]
        ELSE LET r == consume_iter(f1, nx.rest)
             IN  [folder |-> r.folder, seen |-> nx.seen \o r.seen,
                  stopped |-> r.stopped]

\* mutation: the first separator of the prefix is taken, not the last
fold_search_first(p) == position(p, 0, p.tail)

\* slice[..tail].iter().rposition(separator) of fold_with
fold_search(p) == rposition(p, 0, p.tail)

\* mutation: the last group keeps the separator
fold_last_group_keepsep(p, index) == View(p.start + index, p.len - index)

\* &right[1..] of fold_with: everything after the last separator
fold_last_group(p, index) == View(p.start + index + 1, p.len - index - 1)

\* SplitProducer::fold_with
fold_with(p, f) ==
    IF p.tail = p.len
    THEN consume_iter(f, View(p.start, p.len))
    ELSE LET s == fold_search(p)
         IN  IF s.idx # None
             THEN LET c == consume_iter(f, View(p.start, s.idx))
                  IN  IF full(c.folder)
                      THEN [folder |-> c.folder, seen |-> s.seen \o c.seen,
                            stopped |-> TRUE]
                      ELSE [folder |-> consume(c.folder, fold_last_group(p, s.idx)),
                            seen |-> s.seen \o c.seen, stopped |-> FALSE]
             ELSE [folder |-> consume(f, View(p.start, p.len)), seen |-> s.seen,
                   stopped |-> FALSE]

Replace(seq, i, new) ==
    SubSeq(seq, 1, i - 1) \o new \o SubSeq(seq, i + 1, Len(seq))

Tally(seen) == [e \in DOMAIN calls |-> calls[e] + Count(seen, e)]

NoOp == [op |-> "none", pos |-> 0, before |-> FreshProducer(0),
         index |-> None, mid |-> 0, seen |-> <<>>, found |-> FALSE]

NoIdxOp == [op |-> "none", pos |-> 0, index |-> 0, ok |-> TRUE,
            before |-> [start |-> 0, len |-> 0, size |-> 0, st |-> "live",
                        out |-> <<>>, wr |-> 0, id |-> 0]]

IdleIdx ==
    /\ kind = "none" /\ n = 0 /\ size = 0
    /\ length = None /\ pieces = <<>>
    /\ mem = <<>> /\ writes = <<>> /\ panicked = FALSE
    /\ outOfRange = FALSE /\ nsplits = 0 /\ lastIdx = NoIdxOp

SplitInit ==
    /\ data \in UNION {[1..k -> Values] : k \in 0..MaxLen}
    /\ separator \in SUBSET Values
    /\ prods = <<FreshProducer(Len(data))>>
    /\ calls = [e \in 0..(Len(data) - 1) |-> 0]
    /\ lastOp = NoOp
    /\ IdleIdx

\* the engine asks piece i to split (bridge_unindexed)
DoSplit(i) ==
    /\ prods[i].st = "live"
    /\ LET r == split(prods[i])
       IN  /\ prods' = Replace(prods, i, <<r.left>> \o r.right)
           /\ calls' = Tally(r.seen)
           /\ lastOp' = [op |-> "split", pos |-> i, before |-> prods[i],
                         index |-> r.index, mid |-> r.mid, seen |-> r.seen,
                         found |-> r.right # <<>>]
    /\ UNCHANGED <<data, separator>>
    /\ UNCHANGED idxVars

\* the engine folds piece i as a leaf into a folder of capacity cap
DoFold(i, cap) ==
    /\ prods[i].st = "live"
    /\ LET r == fold_with(prods[i], Folder(cap))
       IN  /\ prods' = [prods EXCEPT ![i].st = "folded",
                                     ![i].items = r.folder.items,
                                     ![i].stopped = r.stopped]
           /\ calls' = Tally(r.seen)
           /\ lastOp' = [op |-> "fold", pos |-> i, before |-> prods[i],
                         index |-> None, mid |-> 0, seen |-> r.seen,
                         found |-> FALSE]
    /\ UNCHANGED <<data, separator>>
    /\ UNCHANGED idxVars

SplitNext ==
    \/ \E i \in DOMAIN prods : DoSplit(i)
    \/ \E i \in DOMAIN prods : \E cap \in FolderCaps : DoFold(i, cap)

SplitSpec == SplitInit /\ [][SplitNext]_vars

\* ---------------------------------------------------------------- 
\* Properties of the separator-delimited producer
\* ---------------------------------------------------------------- 

AllFolded == \A i \in DOMAIN prods : prods[i].st = "folded"

\* no folder reported full while groups of its piece were left
NeverFull(p) == ~p.stopped
AllNeverFull == \A i \in DOMAIN prods : NeverFull(prods[i])

\* the groups emitted by the leaves, in left-to-right tree order
RECURSIVE GroupsFrom(_)
GroupsFrom(i) == IF i > Len(prods) THEN <<>>
                 ELSE prods[i].items \o GroupsFrom(i + 1)
Groups == GroupsFrom(1)

Slice(v) == [j \in 1..v.len |-> data[v.start + j]]

\* consecutive groups are one element apart, from 0 to the end of the base
Tiles(gs) ==
    /\ Len(gs) >= 1
    /\ gs[1].start = 0
    /\ gs[Len(gs)].start + gs[Len(gs)].len = Len(data)
    /\ \A j \in 1..(Len(gs) - 1) :
          /\ gs[j + 1].start = gs[j].start + gs[j].len + 1
          /\ Sep(data[gs[j].start + gs[j].len + 1])

\* the groups' elements with the element dropped after each group but the
\* last put back
RECURSIVE Rejoin(_)
Rejoin(gs) ==
    IF gs = <<>> THEN <<>>
    ELSE IF Len(gs) = 1 THEN Slice(gs[1])
    ELSE Slice(gs[1]) \o <<data[gs[1].start + gs[1].len + 1]>> \o Rejoin(Tail(gs))

NumSeparators == Cardinality({e \in DOMAIN data : Sep(data[e])})

\* C1: once every leaf of any split tree is folded (by folders that never
\* report full), the groups in tree order, with the dropped separator
\* put back between consecutive groups, are the original sequence.
C1_RoundTrip ==
    (AllFolded /\ AllNeverFull) =>
        /\ Tiles(Groups)
        /\ Rejoin(Groups) = data

C1_Witness ==
    /\ AllFolded /\ AllNeverFull
    /\ Len(prods) >= 2
    /\ Len(Groups) >= 3
    /\ \E i \in DOMAIN prods :
          prods[i].tail < prods[i].len /\ Len(prods[i].items) >= 2
    /\ \E e \in DOMAIN data : ~Sep(data[e])

\* C2: no emitted group holds an element satisfying the predicate, and a
\* sequence with s separators yields exactly s + 1 groups (so an empty
\* group at a separator at either end and between adjacent separators).
C2_Groups ==
    /\ \A i \in DOMAIN prods :
          \A j \in DOMAIN prods[i].items :
             \A k \in 0..(prods[i].items[j].len - 1) :
                ~Sep(Elem(prods[i].items[j], k))
    /\ (AllFolded /\ AllNeverFull) => Len(Groups) = NumSeparators + 1

C2_Witness ==
    /\ AllFolded /\ AllNeverFull
    /\ Len(data) = MaxLen
    /\ Sep(data[1]) /\ Sep(data[Len(data)])
    /\ \E e \in 1..(Len(data) - 1) : Sep(data[e]) /\ Sep(data[e + 1])
    /\ \E e \in DOMAIN data : ~Sep(data[e])
    /\ Groups[1].len = 0 /\ Groups[Len(Groups)].len = 0
    /\ Len(prods) >= 2

\* C9: over all splits and folds the predicate is invoked at most once on
\* each element, and no split or fold invokes it at an index >= tail of
\* the producer it operates on.
C9_SearchCost ==
    /\ \A e \in DOMAIN calls : calls[e] <= 1
    /\ \A j \in DOMAIN lastOp.seen :
          lastOp.seen[j] - lastOp.before.start < lastOp.before.tail

C9_Witness ==
    /\ AllFolded /\ AllNeverFull
    /\ Len(data) = MaxLen
    /\ Len(prods) >= 2
    /\ \A e \in DOMAIN calls : calls[e] = 1
    /\ lastOp.op = "fold" /\ lastOp.before.tail < lastOp.before.len
    /\ lastOp.seen # <<>>

\* C10: in every producer reached by splits from a fresh one, no element at
\* an index in [tail, len) satisfies the predicate.
C10_CleanSuffix ==
    \A i \in DOMAIN prods :
       \A k \in prods[i].tail..(prods[i].len - 1) : ~Sep(Elem(prods[i], k))

C10_Witness ==
    /\ lastOp.op = "split" /\ lastOp.found
    /\ \E i \in DOMAIN prods :
          /\ prods[i].st = "live"
          /\ 0 < prods[i].tail /\ prods[i].tail < prods[i].len
          /\ \E k \in 0..(prods[i].tail - 1) : Sep(Elem(prods[i], k))

\* the pieces returned by the last split
SplitLeft == prods[lastOp.pos]
SplitRight == prods[lastOp.pos + 1]

\* the indices in [lo, hi) of the view v whose element satisfies the predicate
SepsIn(v, lo, hi) == {k \in lo..(hi - 1) : Sep(Elem(v, k))}

SetMin(S) == CHOOSE x \in S : \A y \in S : x <= y
SetMax(S) == CHOOSE x \in S : \A y \in S : x >= y

\* C11: a fresh producer has tail = len; every producer reached by splits
\* has 0 <= tail <= len; the tail of each piece a split returns is at most
\* the tail of the producer that was split.
C11_TailMarker ==
    /\ lastOp.op = "none" =>
          /\ Len(prods) = 1
          /\ prods[1].len = Len(data)
          /\ prods[1].tail = Len(data)
    /\ \A i \in DOMAIN prods :
          0 <= prods[i].tail /\ prods[i].tail <= prods[i].len
    /\ lastOp.op = "split" =>
          /\ SplitLeft.tail <= lastOp.before.tail
          /\ lastOp.found => SplitRight.tail <= lastOp.before.tail

C11_Witness ==
    /\ lastOp.op = "split" /\ lastOp.found
    /\ lastOp.before.tail = lastOp.before.len
    /\ 0 < SplitLeft.tail /\ SplitLeft.tail < lastOp.before.tail
    /\ 0 < SplitRight.tail /\ SplitRight.tail < lastOp.before.tail
    /\ SplitRight.tail = SplitRight.len

\* C12: split takes mid = tail / 2; the cut is the lowest index in
\* [mid, tail) whose element satisfies the predicate, or, when there is
\* none, the highest such index in [0, mid); a cut k has 0 <= k < tail.
C12_CutSelection ==
    LET b == lastOp.before
        m == b.tail \div 2
        upper == SepsIn(b, m, b.tail)
        lower == SepsIn(b, 0, m)
    IN  lastOp.op = "split" =>
            /\ lastOp.mid = m
            /\ upper # {} => lastOp.found /\ lastOp.index = SetMin(upper)
            /\ (upper = {} /\ lower # {}) =>
                  lastOp.found /\ lastOp.index = SetMax(lower)
            /\ lastOp.found => 0 <= lastOp.index /\ lastOp.index < b.tail

C12_Witness ==
    /\ lastOp.op = "split" /\ lastOp.found
    /\ Cardinality(SepsIn(lastOp.before, 0, lastOp.mid)) >= 2
    /\ SepsIn(lastOp.before, lastOp.mid, lastOp.before.tail) = {}
    /\ lastOp.index = SetMax(SepsIn(lastOp.before, 0, lastOp.mid))

\* C13: when split cuts at k, the element at k is in neither piece; the
\* left piece is [0, k) with tail = min(mid, k); the right piece's tail is
\* tail - k - 1 after a forward cut (k >= mid) and 0 after a backward cut.
C13_Children ==
    LET b == lastOp.before
        k == lastOp.index
        m == b.tail \div 2
    IN  (lastOp.op = "split" /\ lastOp.found) =>
            /\ Sep(Elem(b, k))
            /\ SplitLeft.start = b.start
            /\ SplitLeft.len = k
            /\ SplitLeft.tail = (IF m <= k THEN m ELSE k)
            /\ SplitRight.start = b.start + k + 1
            /\ k >= m => SplitRight.tail = b.tail - k - 1
            /\ k < m => SplitRight.tail = 0

C13_Witness ==
    /\ lastOp.op = "split" /\ lastOp.found
    /\ lastOp.index > lastOp.mid
    /\ SplitLeft.tail = lastOp.mid /\ SplitLeft.tail < SplitLeft.len
    /\ SplitRight.start = lastOp.before.start + lastOp.index + 1
    /\ SplitRight.tail = lastOp.before.tail - lastOp.index - 1

\* C14 as stated: when split cuts at k, the right piece is the parent's
\* elements k + 1 up to but excluding the parent's tail, with
\* tail = tail - k - 1.
C14_RightChildToTail ==
    LET b == lastOp.before
        k == lastOp.index
    IN  (lastOp.op = "split" /\ lastOp.found) =>
            /\ SplitRight.start = b.start + k + 1
            /\ SplitRight.len = b.tail - k - 1
            /\ SplitRight.tail = b.tail - k - 1

\* C14: when split cuts at k, the right piece is the parent's elements
\* k + 1 up to the end of the parent's view, with tail = tail - k - 1 after
\* a forward cut and tail = 0 after a backward cut.
C14_RightChild ==
    LET b == lastOp.before
        k == lastOp.index
    IN  (lastOp.op = "split" /\ lastOp.found) =>
            /\ SplitRight.start = b.start + k + 1
            /\ SplitRight.len = b.len - k - 1
            /\ SplitRight.tail = (IF k >= b.tail \div 2 THEN b.tail - k - 1 ELSE 0)

C14_Witness ==
    /\ lastOp.op = "split" /\ lastOp.found
    /\ lastOp.before.tail < lastOp.before.len
    /\ SplitRight.start + SplitRight.len = lastOp.before.start + lastOp.before.len
    /\ SplitRight.len > lastOp.before.tail - lastOp.index - 1

\* C15: a split of a producer with no separator in [0, tail) returns no
\* second piece and the same producer, its view and the predicate unchanged,
\* with only its tail set to 0.
C15_Exhaustion ==
    [][\A i \in DOMAIN prods :
          (/\ lastOp'.op = "split"
           /\ lastOp'.pos = i
           /\ prods[i].st = "live"
           /\ SepsIn(prods[i], 0, prods[i].tail) = {}) =>
              /\ ~lastOp'.found
              /\ prods' = [prods EXCEPT ![i].tail = 0]
              /\ separator' = separator
              /\ data' = data]_vars

C15_Witness ==
    /\ lastOp.op = "split" /\ ~lastOp.found
    /\ lastOp.before.tail >= 2
    /\ lastOp.before.tail < lastOp.before.len
    /\ SplitLeft = [lastOp.before EXCEPT !.tail = 0]
    /\ Len(prods) >= 2

\* a sequential separator split of the view v from index from on: the
\* maximal separator-free runs, in order
RECURSIVE GroupsOf(_, _)
GroupsOf(v, from) ==
    LET S == SepsIn(v, from, v.len)
    IN  IF S = {} THEN <<View(v.start + from, v.len - from)>>
        ELSE <<View(v.start + from, SetMin(S) - from)>> \o GroupsOf(v, SetMin(S) + 1)

\* C16: fold_with, with a folder that does not stop it, emits exactly the
\* groups of a sequential split of the producer's whole view; when
\* tail < len these are the groups before the last separator of [0, tail)
\* followed by everything after it as one group, or the whole view as one
\* group when [0, tail) holds no separator.
C16_FoldFusion ==
    LET b == lastOp.before
        items == prods[lastOp.pos].items
        S == SepsIn(b, 0, b.tail)
    IN  (lastOp.op = "fold" /\ ~prods[lastOp.pos].stopped) =>
            /\ items = GroupsOf(b, 0)
            /\ (b.tail < b.len /\ S = {}) => items = <<View(b.start, b.len)>>
            /\ (b.tail < b.len /\ S # {}) =>
                  items = GroupsOf(View(b.start, SetMax(S)), 0) \o
                          <<View(b.start + SetMax(S) + 1, b.len - SetMax(S) - 1)>>

C16_Witness ==
    /\ lastOp.op = "fold" /\ ~prods[lastOp.pos].stopped
    /\ lastOp.before.tail < lastOp.before.len
    /\ Cardinality(SepsIn(lastOp.before, 0, lastOp.before.tail)) >= 2
    /\ Len(prods[lastOp.pos].items) >= 3
    /\ prods[lastOp.pos].items[Len(prods[lastOp.pos].items)].len >= 1

\* no piece yields a second piece any more
NoneSplittable ==
    \A i \in DOMAIN prods : split(prods[i]).right = <<>>

\* the elements still held by the pieces from i on
RECURSIVE TotalLen(_)
TotalLen(i) == IF i > Len(prods) THEN 0 ELSE prods[i].len + TotalLen(i + 1)

\* C17: both pieces of a successful split are strictly shorter than the
\* parent; a producer whose split returned no second piece never returns
\* one later; every successful split uses up one element, so there are at
\* most s of them, and once no piece can be split there were exactly s,
\* with s + 1 separator-free leaves, s being the number of separators.
C17_Termination ==
    /\ (lastOp.op = "split" /\ lastOp.found) =>
          /\ SplitLeft.len < lastOp.before.len
          /\ SplitRight.len < lastOp.before.len
    /\ (lastOp.op = "split" /\ ~lastOp.found) =>
          split(SplitLeft).right = <<>>
    /\ TotalLen(1) + (Len(prods) - 1) = Len(data)
    /\ Len(prods) - 1 <= NumSeparators
    /\ NoneSplittable =>
          /\ Len(prods) - 1 = NumSeparators
          /\ \A i \in DOMAIN prods :
                SepsIn(prods[i], 0, prods[i].len) = {}

C17_Witness ==
    /\ NoneSplittable
    /\ \A i \in DOMAIN prods : prods[i].st = "live"
    /\ NumSeparators >= 3
    /\ Len(prods) = NumSeparators + 1
    /\ lastOp.op = "split" /\ ~lastOp.found
    /\ \E i \in DOMAIN prods : prods[i].tail = 0 /\ prods[i].len >= 1

\* ====================================================================
\* Indexed producers
\* ====================================================================

Kinds == {"iter", "chunks", "windows", "iter_mut", "chunks_mut"}
MutKinds == {"iter_mut", "chunks_mut"}
ChunkKinds == {"chunks", "chunks_mut"}

\* a slice of sized elements holds at most isize::MAX elements
IsizeMax == 2 ^ (WordBits - 1) - 1
SliceLens == 0..Min(MaxIdxLen, IsizeMax)

Panic == -2

\* usize addition and multiplication: an overflow panics when the build
\* checks overflow (chk) and wraps otherwise
wadd(a, b, chk) == IF a + b > WordMax
                   THEN (IF chk THEN Panic ELSE (a + b) % WordMod)
                   ELSE a + b
wmul(a, b, chk) == IF a * b > WordMax
                   THEN (IF chk THEN Panic ELSE (a * b) % WordMod)
                   ELSE a * b

\* usize::saturating_sub
saturating_sub(a, b) == IF a >= b THEN a - b ELSE 0

\* ---- len() of the iterators
iter_len(len) == len

\* (self.slice.len() + (self.chunk_size - 1)) / self.chunk_size
chunks_len(len, chunk_size, chk) ==
    LET s == wadd(len, chunk_size - 1, chk)
    IN  IF s = Panic THEN Panic ELSE s \div chunk_size

\* mutation: one window too few
windows_len_short(len, window_size) == saturating_sub(len, window_size)

\* self.slice.len().saturating_sub(self.window_size - 1)
windows_len(len, window_size) == saturating_sub(len, window_size - 1)

iterator_len(k, l, sz, chk) ==
    IF k \in ChunkKinds THEN chunks_len(l, sz, chk)
    ELSE IF k = "windows" THEN windows_len(l, sz)
    ELSE iter_len(l)

\* ---- into_iter() of the producers: the items, as views of the base
\* slice.into_iter(): one item per element
slice_iter(v) == [j \in 1..v.len |-> View(v.start + j - 1, 1)]

\* slice.chunks(chunk_size): successive chunks, the last one truncated
RECURSIVE slice_chunks(_, _)
slice_chunks(v, chunk_size) ==
    IF v.len = 0 THEN <<>>
    ELSE LET k == Min(chunk_size, v.len)
         IN  <<View(v.start, k)>> \o
             slice_chunks(View(v.start + k, v.len - k), chunk_size)

\* slice.windows(window_size): every full window, in order
slice_windows(v, window_size) ==
    IF window_size > v.len THEN <<>>
    ELSE [j \in 1..(v.len - window_size + 1) |-> View(v.start + j - 1, window_size)]

into_iter(k, p) ==
    IF k \in ChunkKinds THEN slice_chunks(p, p.size)
    ELSE IF k = "windows" THEN slice_windows(p, p.size)
    ELSE slice_iter(p)

\* ---- split_at(index) of the producers
Failed == [ok |-> FALSE, left |-> View(0, 0), right |-> View(0, 0)]

\* mutation: the right half starts one element early
slice_split_at_overlap(v, mid) ==
    IF mid > v.len THEN Failed
    ELSE [ok |-> TRUE, left |-> View(v.start, mid),
          right |-> View(v.start + Max(mid - 1, 0), v.len - Max(mid - 1, 0))]

\* slice.split_at(mid) and slice.split_at_mut(mid): panics when mid > len
slice_split_at(v, mid) ==
    IF mid > v.len THEN Failed
    ELSE [ok |-> TRUE, left |-> View(v.start, mid),
          right |-> View(v.start + mid, v.len - mid)]

\* IterProducer::split_at, IterMutProducer::split_at
iter_split_at(p, index) == slice_split_at(p, index)

\* mutation: the chunk index taken as an element index
chunks_elem_index_unscaled(index, chunk_size, chk) == index

\* let elem_index = index * self.chunk_size;
chunks_elem_index(index, chunk_size, chk) == wmul(index, chunk_size, chk)

\* ChunksProducer::split_at, ChunksMutProducer::split_at
chunks_split_at(p, index, chk) ==
    LET elem_index == chunks_elem_index(index, p.size, chk)
    IN  IF elem_index = Panic THEN Failed
        ELSE slice_split_at(p, elem_index)

\* mutation: the left half ends at the window index
windows_left_index_short(len, index, window_size, chk) == Min(len, index)

\* cmp::min(self.slice.len(), index + (self.window_size - 1))
windows_left_index(len, index, window_size, chk) ==
    LET e == wadd(index, window_size - 1, chk)
    IN  IF e = Panic THEN Panic ELSE Min(len, e)

\* WindowsProducer::split_at: &slice[..left_index] and &slice[index..]
windows_split_at(p, index, chk) ==
    LET left_index == windows_left_index(p.len, index, p.size, chk)
    IN  IF left_index = Panic \/ left_index > p.len \/ index > p.len THEN Failed
        ELSE [ok |-> TRUE, left |-> View(p.start, left_index),
              right |-> View(p.start + index, p.len - index)]

split_at(k, p, index, chk) ==
    IF k \in ChunkKinds THEN chunks_split_at(p, index, chk)
    ELSE IF k = "windows" THEN windows_split_at(p, index, chk)
    ELSE iter_split_at(p, index)

\* a producer over a view; chunk_size / window_size is copied to both halves
Piece(v, sz, id) ==
    [start |-> v.start, len |-> v.len, size |-> sz, st |-> "live",
     out |-> <<>>, wr |-> 0, id |-> id]

\* the elements a worker reaches through the items it was handed
RECURSIVE ElemsOf(_)
ElemsOf(items) ==
    IF items = <<>> THEN <<>>
    ELSE [j \in 1..Head(items).len |-> Head(items).start + j - 1] \o
         ElemsOf(Tail(items))

\* the sentinel a worker writes: unique per piece of a mutable producer
\* (pieces of the read-only producers never write)
Sentinel(k) == IF kind \in MutKinds THEN k ELSE 0

\* chunk and window sizes: the small ones and the largest machine words
Sizes == (1..(MaxIdxLen + 1)) \cup {WordMax - 1, WordMax}

\* split indices: the small ones and the largest machine word
Indexes == (0..(MaxIdxLen + 2)) \cup {WordMax}

IdleSplit ==
    /\ data = <<>> /\ separator = {} /\ prods = <<>>
    /\ calls = <<>> /\ lastOp = NoOp

IdxInit ==
    /\ kind \in Kinds
    /\ n \in SliceLens
    /\ size \in (IF kind \in {"iter", "iter_mut"} THEN {1} ELSE Sizes)
    /\ length = None
    /\ pieces = <<Piece(View(0, n), size, Sentinel(1))>>
    /\ mem = [e \in 0..(n - 1) |-> 0]
    /\ writes = [e \in 0..(n - 1) |-> {}]
    /\ panicked = FALSE
    /\ outOfRange = FALSE
    /\ nsplits = 0
    /\ lastIdx = NoIdxOp
    /\ IdleSplit

\* IndexedParallelIterator::len on the iterator, before any split, in a
\* build with (chk) or without overflow checks
CallLen(chk) ==
    /\ ~panicked /\ length = None /\ nsplits = 0
    /\ length' = iterator_len(kind, n, size, chk)
    /\ panicked' = (length' = Panic)
    /\ lastIdx' = [op |-> "len", pos |-> 0, index |-> 0, ok |-> ~panicked',
                   before |-> pieces[1]]
    /\ UNCHANGED <<kind, n, size, pieces, mem, writes, outOfRange, nsplits>>
    /\ UNCHANGED splitVars

\* Producer::split_at(index) on piece i; a panic unwinds and drops every
\* producer
SplitAt(i, index, chk) ==
    /\ ~panicked /\ nsplits < MaxSplits
    /\ pieces[i].st = "live"
    /\ LET p == pieces[i]
           r == split_at(kind, p, index, chk)
           k == nsplits + 1
       IN  /\ panicked' = ~r.ok
           /\ pieces' = IF r.ok
                        THEN Replace(pieces, i, <<Piece(r.left, p.size, Sentinel(2 * k)),
                                                  Piece(r.right, p.size, Sentinel(2 * k + 1))>>)
                        ELSE <<>>
           /\ nsplits' = IF r.ok THEN k ELSE nsplits
           /\ outOfRange' = (outOfRange \/ index > Len(into_iter(kind, p)))
           /\ lastIdx' = [op |-> "split_at", pos |-> i, index |-> index,
                          ok |-> r.ok, before |-> p]
    /\ UNCHANGED <<kind, n, size, length, mem, writes>>
    /\ UNCHANGED splitVars

\* Producer::into_iter on piece i: the leaf is handed to a worker
IntoIter(i) ==
    /\ ~panicked
    /\ pieces[i].st = "live"
    /\ LET items == into_iter(kind, pieces[i])
       IN  pieces' = [pieces EXCEPT ![i].out = items,
                        ![i].st = IF kind \in MutKinds /\ ElemsOf(items) # <<>>
                                  THEN "writing" ELSE "done"]
    /\ UNCHANGED <<kind, n, size, length, mem, writes, panicked,
                   outOfRange, nsplits, lastIdx>>
    /\ UNCHANGED splitVars

\* the worker of piece i writes its sentinel through its next &mut item
Write(i) ==
    /\ ~panicked
    /\ pieces[i].st = "writing"
    /\ LET targets == ElemsOf(pieces[i].out)
           e == targets[pieces[i].wr + 1]
       IN  /\ mem' = [mem EXCEPT ![e] = pieces[i].id]
           /\ writes' = [writes EXCEPT ![e] = @ \cup {pieces[i].id}]
           /\ pieces' = [pieces EXCEPT ![i].wr = @ + 1,
                            ![i].st = IF pieces[i].wr + 1 = Len(targets)
                                      THEN "done" ELSE "writing"]
    /\ UNCHANGED <<kind, n, size, length, panicked, outOfRange,
                   nsplits, lastIdx>>
    /\ UNCHANGED splitVars

IdxNext ==
    \/ \E chk \in BOOLEAN : CallLen(chk)
    \/ \E i \in DOMAIN pieces : \E index \in Indexes : \E chk \in BOOLEAN :
          SplitAt(i, index, chk)
    \/ \E i \in DOMAIN pieces : IntoIter(i)
    \/ \E i \in DOMAIN pieces : Write(i)

IdxSpec == IdxInit /\ [][IdxNext]_vars

\* ---------------------------------------------------------------- 
\* Properties of the indexed producers
\* ---------------------------------------------------------------- 

Ceil(a, b) == (a + b - 1) \div b

\* the unsplit producer over the whole slice
Root == Piece(View(0, n), size, 0)

\* the items of every leaf, in left-to-right tree order
RECURSIVE OutFrom(_)
OutFrom(i) == IF i > Len(pieces) THEN <<>>
              ELSE pieces[i].out \o OutFrom(i + 1)

AllIterated == \A i \in DOMAIN pieces : pieces[i].st # "live"

Range(p) == p.start..(p.start + p.len - 1)

\* the two halves of the last split_at
LeftHalf == pieces[lastIdx.pos]
RightHalf == pieces[lastIdx.pos + 1]

\* C3: split_at(i) of a chunk producer, for every chunk index
\* 0 <= i <= ceil(n / c), returns a left producer of i chunks, all of size
\* c, and a right producer of ceil(n / c) - i chunks, cut at element i * c.
C3_ChunkSplit ==
    LET b == lastIdx.before
        i == lastIdx.index
    IN  (/\ kind \in ChunkKinds
         /\ lastIdx.op = "split_at"
         /\ i <= Ceil(b.len, b.size)) =>
            /\ lastIdx.ok
            /\ LeftHalf.start = b.start
            /\ LeftHalf.len = i * b.size
            /\ RightHalf.start = b.start + i * b.size
            /\ RightHalf.len = b.len - i * b.size
            /\ Len(into_iter(kind, LeftHalf)) = i
            /\ Len(into_iter(kind, RightHalf)) = Ceil(b.len, b.size) - i
            /\ \A j \in DOMAIN into_iter(kind, LeftHalf) :
                  into_iter(kind, LeftHalf)[j].len = b.size

\* C4: for every kind of indexed producer and every tree of split_at calls
\* that returned (indices within the producers' lengths), the items of the
\* leaves in tree order are the items of the unsplit producer.
C4_OrderPreserved ==
    (~panicked /\ ~outOfRange /\ AllIterated) =>
        OutFrom(1) = into_iter(kind, Root)

C4_Witness ==
    /\ ~panicked /\ ~outOfRange /\ AllIterated
    /\ kind = "windows" /\ size = 2
    /\ nsplits = MaxSplits
    /\ Len(pieces) = MaxSplits + 1
    /\ \A i \in DOMAIN pieces : pieces[i].out # <<>>
    /\ Len(OutFrom(1)) >= 3

\* C5: the pieces of a mutable producer, after any split_at calls that
\* returned, are pairwise disjoint and cover [0, n); each element is
\* written by at most one worker and holds that worker's sentinel.
C5_MutDisjoint ==
    kind \in MutKinds =>
        /\ ~panicked =>
              \A e \in 0..(n - 1) :
                 Cardinality({i \in DOMAIN pieces : e \in Range(pieces[i])}) = 1
        /\ \A e \in 0..(n - 1) :
              /\ Cardinality(writes[e]) <= 1
              /\ writes[e] = {} => mem[e] = 0
              /\ writes[e] # {} => mem[e] \in writes[e]
        /\ (~panicked /\ \A i \in DOMAIN pieces : pieces[i].st = "done") =>
              \A e \in 0..(n - 1) :
                 \E i \in DOMAIN pieces :
                    e \in Range(pieces[i]) /\ mem[e] = pieces[i].id

C5_Witness ==
    /\ kind = "chunks_mut" /\ size = 2
    /\ ~panicked
    /\ nsplits = 2
    /\ \E i, j \in DOMAIN pieces :
          /\ i # j
          /\ pieces[i].st = "writing" /\ pieces[i].wr = 1
          /\ pieces[j].st = "writing" /\ pieces[j].wr = 1
    /\ \E e \in 0..(n - 1) : writes[e] = {}

\* C6: for every slice length n and chunk size c >= 1, len() of the chunk
\* iterator is ceil(n / c); iteration yields len() chunks, all of size c
\* but the last, of size n - c * (len() - 1).
C6_ChunkLength ==
    LET items == into_iter(kind, Root)
    IN  (kind \in ChunkKinds /\ lastIdx.op = "len") =>
            /\ length = Ceil(n, size)
            /\ Len(items) = length
            /\ \A j \in 1..(Len(items) - 1) : items[j].len = size
            /\ Len(items) >= 1 =>
                  items[Len(items)].len = n - size * (length - 1)

\* C7: len() of the window iterator is max(n - w + 1, 0); iteration yields
\* len() windows, window j over [j, j + w); none when n < w.
C7_WindowCount ==
    (kind = "windows" /\ length # None) =>
        /\ length = Max(n - size + 1, 0)
        /\ (nsplits = 0 /\ ~panicked /\ pieces[1].st = "done") =>
              /\ Len(pieces[1].out) = length
              /\ \A j \in DOMAIN pieces[1].out :
                    pieces[1].out[j] = View(j - 1, size)
              /\ n < size => pieces[1].out = <<>>

C7_Witness ==
    /\ kind = "windows" /\ size = 2 /\ n = 4
    /\ length = 3
    /\ nsplits = 0 /\ ~panicked /\ pieces[1].st = "done"
    /\ Len(pieces[1].out) = 3

\* C8: split_at(i) of a window producer over n elements, 0 <= i <= len():
\* the left half is [0, min(n, i + w - 1)) with i windows, the right half
\* [i, n) with len() - i windows; the halves share at most w - 1 elements
\* and every window of the parent comes from exactly one half.
C8_WindowSplit ==
    LET b == lastIdx.before
        i == lastIdx.index
        w == b.size
        total == Max(b.len - w + 1, 0)
    IN  (/\ kind = "windows"
         /\ lastIdx.op = "split_at"
         /\ i <= total) =>
            /\ lastIdx.ok
            /\ LeftHalf.start = b.start
            /\ LeftHalf.len = Min(b.len, i + w - 1)
            /\ RightHalf.start = b.start + i
            /\ RightHalf.len = b.len - i
            /\ Len(into_iter(kind, LeftHalf)) = i
            /\ Len(into_iter(kind, RightHalf)) = total - i
            /\ Cardinality(Range(LeftHalf) \cap Range(RightHalf)) <= w - 1
            /\ \A j \in DOMAIN into_iter(kind, b) :
                  Count(into_iter(kind, LeftHalf), into_iter(kind, b)[j])
                  + Count(into_iter(kind, RightHalf), into_iter(kind, b)[j]) = 1

C8_Witness ==
    /\ kind = "windows" /\ lastIdx.op = "split_at" /\ lastIdx.ok
    /\ lastIdx.before.size = 3 /\ lastIdx.before.len = 4
    /\ lastIdx.index = 1
    /\ Cardinality(Range(LeftHalf) \cap Range(RightHalf)) = 2

\* C18: split_at(i) with i greater than the producer's length either panics
\* or returns halves whose items, left then right, are the parent's items.
C18_OutOfRange ==
    LET b == lastIdx.before
    IN  (/\ lastIdx.op = "split_at"
         /\ lastIdx.index > Len(into_iter(kind, b))
         /\ lastIdx.ok) =>
            into_iter(kind, LeftHalf) \o into_iter(kind, RightHalf)
               = into_iter(kind, b)

====
